---- MODULE Spec2Model ----
(***************************************************************************)
(* Service Ticket Dashboard (src/demo-dashboard.py).                       *)
(*                                                                         *)
(* The script is run top to bottom once per user interaction.  One action  *)
(* of this module is one interaction followed by the whole script run it   *)
(* triggers: header, session state initialisation, filter widgets or       *)
(* their defaults, the row filter, the metrics, the value counts of the    *)
(* donut charts and the grouped time series.                               *)
(*                                                                         *)
(* Data representation                                                     *)
(*   timestamp   <<year, month, day, hour>>       (pandas Timestamp)       *)
(*   date        <<year, month, day>>             (datetime.date)          *)
(*   NaT         <<>>                             (min/max of no rows)     *)
(*   str         sequence of character codes      (Python str)             *)
(*   float       [num, den], an exact fraction    (Python float)           *)
(* Every row of the CSV has a CreatedDate (the Ticket of the data model    *)
(* requires it); ClosedDate is parsed at load and never read afterwards,   *)
(* so rows do not carry it.                                                *)
(***************************************************************************)
EXTENDS Integers, Sequences, FiniteSets, TLC

\* Largest number of rows of service_ticket_details.csv.
MaxTickets == 2

\* pd.Timedelta(days=30) of new_tickets.
NewWindowDays == 30

NaT == <<>>

---------------------------------------------------------------------------
\* Dates, timestamps and strings

\* Python's comparison of tuples / str: lexicographic, a proper prefix first.
RECURSIVE LexLess(_, _)
LexLess(a, b) ==
    IF b = <<>> THEN FALSE
    ELSE IF a = <<>> THEN TRUE
    ELSE IF Head(a) # Head(b) THEN Head(a) < Head(b)
    ELSE LexLess(Tail(a), Tail(b))

\* Timestamp.date() and Series.dt.date: the time of day is dropped.
DateOf(ts) == IF ts = NaT THEN NaT ELSE <<ts[1], ts[2], ts[3]>>

\* date <= date; any comparison with NaT is False.
DateLeq(a, b) == a # NaT /\ b # NaT /\ (a = b \/ LexLess(a, b))

IsLeap(y) == (y % 4 = 0 /\ y % 100 # 0) \/ y % 400 = 0

DaysInMonth(y, m) ==
    IF m = 2 THEN (IF IsLeap(y) THEN 29 ELSE 28)
    ELSE IF m \in {4, 6, 9, 11} THEN 30 ELSE 31

RECURSIVE DaysBeforeMonth(_, _)
DaysBeforeMonth(y, m) ==
    IF m = 1 THEN 0 ELSE DaysBeforeMonth(y, m - 1) + DaysInMonth(y, m - 1)

\* Proleptic Gregorian ordinal of a date (date.toordinal).
Ordinal(d) ==
    LET y == d[1] - 1
    IN  365 * y + (y \div 4) - (y \div 100) + (y \div 400)
        + DaysBeforeMonth(d[1], d[2]) + d[3]

\* A timestamp as hours on the time line.
Hours(ts) == Ordinal(DateOf(ts)) * 24 + ts[4]

\* str(n) for n >= 0, as character codes ('0' is 48).
RECURSIVE IntToStr(_)
IntToStr(n) ==
    IF n < 10 THEN <<48 + n>> ELSE IntToStr(n \div 10) \o <<48 + (n % 10)>>

\* '%b': Jan Feb Mar Apr May Jun Jul Aug Sep Oct Nov Dec
MonthAbbr ==
    << <<74, 97, 110>>,  <<70, 101, 98>>,  <<77, 97, 114>>,
       <<65, 112, 114>>, <<77, 97, 121>>,  <<74, 117, 110>>,
       <<74, 117, 108>>, <<65, 117, 103>>, <<83, 101, 112>>,
       <<79, 99, 116>>,  <<78, 111, 118>>, <<68, 101, 99>> >>

\* Period('M').strftime('%b %Y'), e.g. "Jan 2024" (' ' is 32).
MonthLabel(ts) == MonthAbbr[ts[2]] \o <<32>> \o IntToStr(ts[1])

\* str(Period('Q')), e.g. "2024Q1" ('Q' is 81).
QuarterLabel(ts) ==
    IntToStr(ts[1]) \o <<81>> \o IntToStr(((ts[2] - 1) \div 3) + 1)

\* dt.year.astype(str), e.g. "2024".
YearLabel(ts) == IntToStr(ts[1])

---------------------------------------------------------------------------
\* The dataset

ActiveStatuses == {"Open", "In Progress", "On Hold"}

\* Rows a CSV file is made of.
TicketPool ==
    { [Category |-> "Network",  Priority |-> "High", Status |-> "Open",
       CreatedDate |-> <<2024, 1, 5, 9>>],
      [Category |-> "Network",  Priority |-> "Low",  Status |-> "Closed",
       CreatedDate |-> <<2024, 2, 10, 0>>],
      [Category |-> "Hardware", Priority |-> "Low",  Status |-> "On Hold",
       CreatedDate |-> <<2024, 2, 10, 15>>],
      [Category |-> "Hardware", Priority |-> "High", Status |-> "Resolved",
       CreatedDate |-> <<2023, 12, 31, 23>>] }

\* The CSV files: every sequence of at most MaxTickets rows.
CsvFiles == UNION { [1..n -> TicketPool] : n \in 0..MaxTickets }

\* datetime.now(): the clock of a session, which is short against the
\* 30 day window of new_tickets, reads the same hour in each of its runs.
NowChoices == { <<2024, 2, 15, 10>>, <<2024, 3, 11, 12>> }

\* load_data: the rows in file order under a RangeIndex 0, 1, ...
load_data(csv) ==
    [i \in 1..Len(csv) |->
        [idx |-> i - 1,
         Category |-> csv[i].Category, Priority |-> csv[i].Priority,
         Status |-> csv[i].Status, CreatedDate |-> csv[i].CreatedDate]]

Range(s) == { s[i] : i \in DOMAIN s }

\* Series.unique()
Unique(d, column) == { r[column] : r \in Range(d) }

\* df['CreatedDate'].min() / .max(): NaT when there is no row.
SeriesMin(d) ==
    IF d = <<>> THEN NaT
    ELSE CHOOSE t \in Unique(d, "CreatedDate") :
            \A u \in Unique(d, "CreatedDate") : ~LexLess(u, t)

SeriesMax(d) ==
    IF d = <<>> THEN NaT
    ELSE CHOOSE t \in Unique(d, "CreatedDate") :
            \A u \in Unique(d, "CreatedDate") : ~LexLess(t, u)

---------------------------------------------------------------------------
\* The filter values of a run

\* The else branch: the filters when the panel is hidden.
DefaultFilters(d) ==
    [start_date |-> DateOf(SeriesMin(d)),
     end_date   |-> DateOf(SeriesMax(d)),
     category   |-> Unique(d, "Category"),
     priority   |-> Unique(d, "Priority"),
     status     |-> Unique(d, "Status"),
     time_frame |-> "Monthly"]

\* The options of st.selectbox("Time frame", ...), in order.
TimeFrameOptions == <<"Daily", "Monthly", "Quarterly", "Yearly">>

\* The sidebar widgets as first rendered: date_input value=min_date and
\* value=max_date, multiselect default=all options, selectbox without index
\* (its first option).
WidgetDefaults(d) ==
    [start_date |-> DateOf(SeriesMin(d)),
     end_date   |-> DateOf(SeriesMax(d)),
     category   |-> Unique(d, "Category"),
     priority   |-> Unique(d, "Priority"),
     status     |-> Unique(d, "Status"),
     time_frame |-> TimeFrameOptions[1]]

\* The days a date_input offers: min_value <= day <= max_value.
DatePickerDays(d) ==
    { x \in { DateOf(t.CreatedDate) : t \in TicketPool } :
        DateLeq(DateOf(SeriesMin(d)), x) /\ DateLeq(x, DateOf(SeriesMax(d))) }

---------------------------------------------------------------------------
\* FILTER DATA

RowMask_AnyDateBound(r, flt) ==
    /\ \/ DateLeq(flt.start_date, DateOf(r.CreatedDate))
       \/ DateLeq(DateOf(r.CreatedDate), flt.end_date)
    /\ r.Category \in flt.category
    /\ r.Priority \in flt.priority
    /\ r.Status \in flt.status

RowMask_Timestamp(r, flt) ==
    /\ DateLeq(flt.start_date, DateOf(r.CreatedDate))
    /\ flt.end_date # NaT
    /\ ~LexLess(flt.end_date \o <<0>>, r.CreatedDate)
    /\ r.Category \in flt.category
    /\ r.Priority \in flt.priority
    /\ r.Status \in flt.status

RowMask_EmptyMeansAll(r, flt) ==
    /\ DateLeq(flt.start_date, DateOf(r.CreatedDate))
    /\ DateLeq(DateOf(r.CreatedDate), flt.end_date)
    /\ (flt.category = {} \/ r.Category \in flt.category)
    /\ (flt.priority = {} \/ r.Priority \in flt.priority)
    /\ (flt.status = {} \/ r.Status \in flt.status)

\* The boolean mask of one row: the five conditions joined by &.
RowMask(r, flt) ==
    /\ DateLeq(flt.start_date, DateOf(r.CreatedDate))
    /\ DateLeq(DateOf(r.CreatedDate), flt.end_date)
    /\ r.Category \in flt.category
    /\ r.Priority \in flt.priority
    /\ r.Status \in flt.status

\* df[mask]: the rows whose mask is True, in their order, index kept.
FilterData(d, flt) == SelectSeq(d, LAMBDA r : RowMask(r, flt))

---------------------------------------------------------------------------
\* METRICS CALCULATION

TotalTickets(f) == Len(f)

ActiveTickets_WithClosed(f) ==
    Len(SelectSeq(f, LAMBDA r : r.Status \in ActiveStatuses \cup {"Closed"}))

ActiveTickets(f) == Len(SelectSeq(f, LAMBDA r : r.Status \in ActiveStatuses))

NewTickets(f, nw) ==
    Len(SelectSeq(f, LAMBDA r :
            Hours(r.CreatedDate) > Hours(nw) - NewWindowDays * 24))

ClosedTickets(f) == Len(SelectSeq(f, LAMBDA r : r.Status = "Closed"))

ClosureRate_Fraction(closed, total) ==
    IF total > 0 THEN [num |-> closed, den |-> total]
    ELSE [num |-> 0, den |-> 1]

\* (closed_tickets / total_tickets * 100) if total_tickets > 0 else 0
ClosureRate(closed, total) ==
    IF total > 0 THEN [num |-> closed * 100, den |-> total]
    ELSE [num |-> 0, den |-> 1]

---------------------------------------------------------------------------
\* DONUT CHARTS

\* df[column].value_counts(): each value present with its number of rows.
value_counts(f, column) ==
    [v \in Unique(f, column) |->
        Cardinality({ i \in DOMAIN f : f[i][column] = v })]

---------------------------------------------------------------------------
\* TIME SERIES CHARTS

\* A TimeGroup value: a datetime.date for Daily, a str otherwise.
DateKey(ts) == [kind |-> "date", v |-> DateOf(ts)]
StrKey(codes) == [kind |-> "str", v |-> codes]

WithTimeGroup(r, key) ==
    [idx |-> r.idx, Category |-> r.Category, Priority |-> r.Priority,
     Status |-> r.Status, CreatedDate |-> r.CreatedDate, TimeGroup |-> key]

group_time_StrictYearly(d, freq_label) ==
    [i \in DOMAIN d |->
        WithTimeGroup(d[i],
            IF freq_label = "Daily" THEN DateKey(d[i].CreatedDate)
            ELSE IF freq_label = "Quarterly"
                THEN StrKey(QuarterLabel(d[i].CreatedDate))
            ELSE IF freq_label = "Yearly"
                THEN StrKey(YearLabel(d[i].CreatedDate))
            ELSE StrKey(MonthLabel(d[i].CreatedDate)))]

\* group_time: the frame with a TimeGroup column; every freq_label other
\* than Daily, Monthly and Quarterly takes the else branch.
group_time(d, freq_label) ==
    [i \in DOMAIN d |->
        WithTimeGroup(d[i],
            IF freq_label = "Daily" THEN DateKey(d[i].CreatedDate)
            ELSE IF freq_label = "Monthly"
                THEN StrKey(MonthLabel(d[i].CreatedDate))
            ELSE IF freq_label = "Quarterly"
                THEN StrKey(QuarterLabel(d[i].CreatedDate))
            ELSE StrKey(YearLabel(d[i].CreatedDate)))]

\* The order groupby sorts its keys in: date < date, str < str.
KeyLess(a, b) == LexLess(a.v, b.v)

RECURSIVE SortKeys(_)
SortKeys(S) ==
    IF S = {} THEN <<>>
    ELSE LET m == CHOOSE x \in S : \A y \in S \ {x} : KeyLess(x, y)
         IN  <<m>> \o SortKeys(S \ {m})

\* groupby('TimeGroup').size().reset_index(name=...): one row per key
\* present, in sorted key order, with the number of rows of the key.
GroupBySize(dt) ==
    LET keys == SortKeys(Unique(dt, "TimeGroup"))
    IN  [k \in DOMAIN keys |->
            [TimeGroup |-> keys[k],
             Count |-> Cardinality({ i \in DOMAIN dt :
                                        dt[i].TimeGroup = keys[k] })]]

GroupedTotal_ActiveOnly(dt) ==
    GroupBySize(SelectSeq(dt, LAMBDA r : r.Status \in ActiveStatuses))

GroupedTotal(dt) == GroupBySize(dt)

GroupedActive(dt) ==
    GroupBySize(SelectSeq(dt, LAMBDA r : r.Status \in ActiveStatuses))

GroupedClosed(dt) ==
    GroupBySize(SelectSeq(dt, LAMBDA r : r.Status = "Closed"))

---------------------------------------------------------------------------
\* State

VARIABLES
    df,                 \* the loaded frame (cached by st.cache_data)
    show_filters,       \* st.session_state['show_filters']
    start_date, end_date, category, priority, status, time_frame,
    now,                \* datetime.now()
    filtered_df,
    total_tickets, active_tickets, new_tickets, closed_tickets, closure_rate,
    category_counts, priority_counts, status_counts,
    df_time, grouped_total, grouped_active, grouped_closed,
    outcome,            \* how the last run ended: "result" or an error name
    pc,                 \* "done", or "group_time" before a call of group_time
    touched             \* history: a filter widget was changed by the user

filters ==
    [start_date |-> start_date, end_date |-> end_date,
     category |-> category, priority |-> priority, status |-> status,
     time_frame |-> time_frame]

inputs == <<df, show_filters, start_date, end_date, category, priority,
            status, time_frame, now>>
metrics == <<filtered_df, total_tickets, active_tickets, new_tickets,
             closed_tickets, closure_rate, category_counts, priority_counts,
             status_counts>>
series == <<df_time, grouped_total, grouped_active, grouped_closed>>
vars == <<inputs, metrics, series, outcome, pc, touched>>

---------------------------------------------------------------------------
\* One run of the script

\* header_section and the session state initialisation: a press of the
\* hamburger button negates the flag; a session without the flag gets False.
HeaderSection(sf, pressed) == IF pressed THEN ~sf ELSE sf

SidebarFilters_IgnoreFlag(sf, d, widgets) == widgets

\* The FILTERS block: the widget values when the panel is shown, the
\* defaults of the else branch when it is not.
SidebarFilters(sf, d, widgets) == IF sf THEN widgets ELSE DefaultFilters(d)

\* The first run of a session on a loaded file: no flag in the session
\* state, no button pressed, the widgets (were they shown) at their defaults.
\* No statement of the script raises: a run ends with its results.
Init ==
    /\ \E csv \in CsvFiles : df = load_data(csv)
    /\ now \in NowChoices
    /\ show_filters = HeaderSection(FALSE, FALSE)
    /\ \E flt \in {SidebarFilters(show_filters, df, WidgetDefaults(df))} :
          /\ start_date = flt.start_date
          /\ end_date = flt.end_date
          /\ category = flt.category
          /\ priority = flt.priority
          /\ status = flt.status
          /\ time_frame = flt.time_frame
    /\ filtered_df = FilterData(df, filters)
    /\ total_tickets = TotalTickets(filtered_df)
    /\ active_tickets = ActiveTickets(filtered_df)
    /\ new_tickets = NewTickets(filtered_df, now)
    /\ closed_tickets = ClosedTickets(filtered_df)
    /\ closure_rate = ClosureRate(closed_tickets, total_tickets)
    /\ category_counts = value_counts(filtered_df, "Category")
    /\ priority_counts = value_counts(filtered_df, "Priority")
    /\ status_counts = value_counts(filtered_df, "Status")
    /\ df_time = group_time(filtered_df, time_frame)
    /\ grouped_total = GroupedTotal(df_time)
    /\ grouped_active = GroupedActive(df_time)
    /\ grouped_closed = GroupedClosed(df_time)
    /\ outcome = "result"
    /\ pc = "done"
    /\ touched = FALSE

\* A rerun, statement by statement: `pressed` says whether the hamburger
\* button triggered it, `widgets` are the values the sidebar widgets hold.
Rerun(pressed, widgets) ==
    /\ df' = df
    /\ now' = now
    /\ show_filters' = HeaderSection(show_filters, pressed)
    /\ \E flt \in {SidebarFilters(show_filters', df, widgets)} :
          /\ start_date' = flt.start_date
          /\ end_date' = flt.end_date
          /\ category' = flt.category
          /\ priority' = flt.priority
          /\ status' = flt.status
          /\ time_frame' = flt.time_frame
    /\ filtered_df' = FilterData(df, filters')
    /\ total_tickets' = TotalTickets(filtered_df')
    /\ active_tickets' = ActiveTickets(filtered_df')
    /\ new_tickets' = NewTickets(filtered_df', now')
    /\ closed_tickets' = ClosedTickets(filtered_df')
    /\ closure_rate' = ClosureRate(closed_tickets', total_tickets')
    /\ category_counts' = value_counts(filtered_df', "Category")
    /\ priority_counts' = value_counts(filtered_df', "Priority")
    /\ status_counts' = value_counts(filtered_df', "Status")
    /\ df_time' = group_time(filtered_df', time_frame')
    /\ grouped_total' = GroupedTotal(df_time')
    /\ grouped_active' = GroupedActive(df_time')
    /\ grouped_closed' = GroupedClosed(df_time')
    /\ outcome' = "result"
    /\ pc' = "done"

---------------------------------------------------------------------------
\* The interactions

\* The hamburger button.  Widgets that were not rendered in the previous run
\* have no state: shown again, they hold their defaults.
PressHamburger ==
    /\ Rerun(TRUE, IF show_filters THEN filters ELSE WidgetDefaults(df))
    /\ UNCHANGED touched

\* The widgets exist only while the panel is shown.
ChangeStartDate ==
    /\ show_filters
    /\ \E day \in DatePickerDays(df) \ {start_date} :
          Rerun(FALSE, [filters EXCEPT !.start_date = day])
    /\ touched' = TRUE

ChangeEndDate ==
    /\ show_filters
    /\ \E day \in DatePickerDays(df) \ {end_date} :
          Rerun(FALSE, [filters EXCEPT !.end_date = day])
    /\ touched' = TRUE

\* A multiselect: one option removed from, or added to, the selection.
Toggle(sel, x) == IF x \in sel THEN sel \ {x} ELSE sel \cup {x}

ChangeCategory ==
    /\ show_filters
    /\ \E c \in Unique(df, "Category") :
          Rerun(FALSE, [filters EXCEPT !.category = Toggle(category, c)])
    /\ touched' = TRUE

ChangePriority ==
    /\ show_filters
    /\ \E p \in Unique(df, "Priority") :
          Rerun(FALSE, [filters EXCEPT !.priority = Toggle(priority, p)])
    /\ touched' = TRUE

ChangeStatus ==
    /\ show_filters
    /\ \E s \in Unique(df, "Status") :
          Rerun(FALSE, [filters EXCEPT !.status = Toggle(status, s)])
    /\ touched' = TRUE

ChangeTimeFrame ==
    /\ show_filters
    /\ \E tf \in Range(TimeFrameOptions) \ {time_frame} :
          Rerun(FALSE, [filters EXCEPT !.time_frame = tf])
    /\ touched' = TRUE

Next ==
    \/ PressHamburger
    \/ ChangeStartDate
    \/ ChangeEndDate
    \/ ChangeCategory
    \/ ChangePriority
    \/ ChangeStatus
    \/ ChangeTimeFrame

Spec == Init /\ [][Next]_vars

---------------------------------------------------------------------------
\* group_time as a function of its freq_label argument

\* The freq_label values group_time is called with: the four options of the
\* selectbox and two values that are none of them.
FreqLabelInputs == Range(TimeFrameOptions) \cup {"Weekly", ""}

\* The script on a loaded file, stopped before the call of group_time, with
\* the default filters and an arbitrary time_frame.
InitGroup ==
    /\ \E csv \in CsvFiles : df = load_data(csv)
    /\ now \in NowChoices
    /\ show_filters = HeaderSection(FALSE, FALSE)
    /\ \E flt \in {DefaultFilters(df)} :
          /\ start_date = flt.start_date
          /\ end_date = flt.end_date
          /\ category = flt.category
          /\ priority = flt.priority
          /\ status = flt.status
    /\ time_frame \in FreqLabelInputs
    /\ filtered_df = FilterData(df, filters)
    /\ total_tickets = TotalTickets(filtered_df)
    /\ active_tickets = ActiveTickets(filtered_df)
    /\ new_tickets = NewTickets(filtered_df, now)
    /\ closed_tickets = ClosedTickets(filtered_df)
    /\ closure_rate = ClosureRate(closed_tickets, total_tickets)
    /\ category_counts = value_counts(filtered_df, "Category")
    /\ priority_counts = value_counts(filtered_df, "Priority")
    /\ status_counts = value_counts(filtered_df, "Status")
    /\ df_time = <<>>
    /\ grouped_total = <<>>
    /\ grouped_active = <<>>
    /\ grouped_closed = <<>>
    /\ outcome = "running"
    /\ pc = "group_time"
    /\ touched = FALSE

\* df_time = group_time(filtered_df, time_frame) and the three groupings.
CallGroupTime ==
    /\ pc = "group_time"
    /\ df_time' = group_time(filtered_df, time_frame)
    /\ grouped_total' = GroupedTotal(df_time')
    /\ grouped_active' = GroupedActive(df_time')
    /\ grouped_closed' = GroupedClosed(df_time')
    /\ outcome' = "result"
    /\ pc' = "done"
    /\ UNCHANGED <<inputs, metrics, touched>>

GroupNext == CallGroupTime

GroupSpec == InitGroup /\ [][GroupNext]_vars

---------------------------------------------------------------------------
\* Properties

\* The date bounds of the run, compared on the time line.
InvertedRange ==
    start_date # NaT /\ end_date # NaT
    /\ Ordinal(end_date) < Ordinal(start_date)

ValidRange ==
    start_date # NaT /\ end_date # NaT
    /\ Ordinal(start_date) <= Ordinal(end_date)

AllSelected ==
    /\ category = { df[i].Category : i \in DOMAIN df }
    /\ priority = { df[i].Priority : i \in DOMAIN df }
    /\ status = { df[i].Status : i \in DOMAIN df }

Chronological(g) ==
    \A i, j \in DOMAIN g :
        i < j =>
            \A r1, r2 \in Range(df_time) :
                (r1.TimeGroup = g[i].TimeGroup /\ r2.TimeGroup = g[j].TimeGroup)
                    => Hours(r1.CreatedDate) < Hours(r2.CreatedDate)

\* C2: for each of the four time frames, each of the three series lists its
\* buckets in chronological order of the periods they denote.
C2_BucketsChronological ==
    time_frame \in Range(TimeFrameOptions) =>
        /\ Chronological(grouped_total)
        /\ Chronological(grouped_active)
        /\ Chronological(grouped_closed)

\* The decimal digits of a year, as a str.
IsYearLabel(key, year) ==
    /\ key.kind = "str"
    /\ Len(key.v) = 4
    /\ (key.v[1] - 48) * 1000 + (key.v[2] - 48) * 100
       + (key.v[3] - 48) * 10 + (key.v[4] - 48) = year

Passes(t) ==
    /\ Ordinal(start_date) <= Ordinal(DateOf(t.CreatedDate))
    /\ Ordinal(DateOf(t.CreatedDate)) <= Ordinal(end_date)
    /\ t.Category \in category
    /\ t.Priority \in priority
    /\ t.Status \in status

\* C4: with valid date bounds, the filtered set holds exactly the rows that
\* lie between the bounds (inclusive, by calendar date) and whose category,
\* priority and status are selected, in source order.
C4_FilterExact ==
    ValidRange =>
        /\ \A i \in DOMAIN df :
              Passes(df[i]) <=> (\E j \in DOMAIN filtered_df : filtered_df[j] = df[i])
        /\ \A j \in DOMAIN filtered_df : \E i \in DOMAIN df : filtered_df[j] = df[i]
        /\ \A j, k \in DOMAIN filtered_df :
              j < k => filtered_df[j].idx < filtered_df[k].idx

\* A row created on the end date after midnight is kept, another is dropped.
C4_Witness ==
    /\ ValidRange /\ show_filters /\ touched
    /\ \E j \in DOMAIN filtered_df :
          /\ DateOf(filtered_df[j].CreatedDate) = end_date
          /\ filtered_df[j].CreatedDate[4] > 0
    /\ Len(filtered_df) < Len(df)

\* The default FilterSpec: the whole date range of the dataset, every value
\* present, Monthly.
IsDefaultFilterSpec ==
    /\ AllSelected
    /\ time_frame = "Monthly"
    /\ IF df = <<>> THEN start_date = NaT /\ end_date = NaT
       ELSE /\ \E i \in DOMAIN df : start_date = DateOf(df[i].CreatedDate)
            /\ \E i \in DOMAIN df : end_date = DateOf(df[i].CreatedDate)
            /\ \A i \in DOMAIN df :
                  /\ Ordinal(start_date) <= Ordinal(DateOf(df[i].CreatedDate))
                  /\ Ordinal(DateOf(df[i].CreatedDate)) <= Ordinal(end_date)

\* C5: as long as the user has changed no filter widget, the run uses the
\* default FilterSpec, whether the panel is hidden or shown.
C5_UntouchedIsDefault == ~touched => IsDefaultFilterSpec

\* C6: an empty dataset, or valid filters that match no row (an empty
\* selection matches none), end with a result, not an error: every metric
\* is 0, closureRate is 0, the breakdowns and the series are empty.
C6_DegenerateResult ==
    (df = <<>> \/ ValidRange) =>
        /\ outcome = "result"
        /\ (df = <<>> \/ category = {} \/ priority = {} \/ status = {}
            \/ \A i \in DOMAIN df : ~Passes(df[i]))
              => /\ filtered_df = <<>>
                 /\ total_tickets = 0 /\ active_tickets = 0
                 /\ new_tickets = 0 /\ closed_tickets = 0
                 /\ closure_rate.num = 0
                 /\ DOMAIN category_counts = {}
                 /\ DOMAIN priority_counts = {}
                 /\ DOMAIN status_counts = {}
                 /\ grouped_total = <<>>
                 /\ grouped_active = <<>>
                 /\ grouped_closed = <<>>

C6_Witness ==
    /\ df # <<>> /\ ValidRange /\ show_filters
    /\ category = {} /\ priority # {} /\ status # {}
    /\ \E i \in DOMAIN df :
          Ordinal(start_date) <= Ordinal(DateOf(df[i].CreatedDate))
          /\ Ordinal(DateOf(df[i].CreatedDate)) <= Ordinal(end_date)
    /\ total_tickets = 0

\* C7: closureRate is closedTickets / totalTickets * 100, within [0, 100],
\* when totalTickets > 0, and exactly 0 when totalTickets = 0.
C7_ClosureRate ==
    /\ total_tickets > 0 =>
          /\ closure_rate.den > 0
          /\ closure_rate.num * total_tickets
                = closed_tickets * 100 * closure_rate.den
          /\ 0 <= closure_rate.num
          /\ closure_rate.num <= 100 * closure_rate.den
    /\ total_tickets = 0 => closure_rate = [num |-> 0, den |-> 1]

C7_Witness ==
    total_tickets > 0 /\ closed_tickets > 0 /\ closed_tickets < total_tickets

RowsWithStatus(S) == { j \in DOMAIN filtered_df : filtered_df[j].Status \in S }

\* C8: activeTickets + closedTickets <= totalTickets; active counts the
\* filtered rows whose status is Open, In Progress or On Hold, closed those
\* whose status is Closed, and a row of any other status is in neither.
C8_Conservation ==
    /\ active_tickets + closed_tickets <= total_tickets
    /\ active_tickets
          = Cardinality(RowsWithStatus({"Open", "In Progress", "On Hold"}))
    /\ closed_tickets = Cardinality(RowsWithStatus({"Closed"}))
    /\ total_tickets = Cardinality(DOMAIN filtered_df)

C8_Witness ==
    /\ active_tickets > 0
    /\ active_tickets + closed_tickets < total_tickets

RECURSIVE SumCounts(_)
SumCounts(g) == IF g = <<>> THEN 0 ELSE Head(g).Count + SumCounts(Tail(g))

\* C9: the counts of the total series add up to totalTickets, and every
\* filtered row is in exactly one of its buckets.
C9_BucketCountConservation ==
    /\ SumCounts(grouped_total) = total_tickets
    /\ Len(df_time) = total_tickets
    /\ \A i \in DOMAIN df_time :
          Cardinality({ k \in DOMAIN grouped_total :
                          grouped_total[k].TimeGroup = df_time[i].TimeGroup }) = 1

C9_Witness ==
    /\ time_frame = "Quarterly" /\ Len(grouped_total) = 2
    /\ total_tickets = 2 /\ active_tickets = 1

\* C10: show_filters starts False, each press of the hamburger button negates
\* it and no other interaction changes it, and every run with show_filters
\* False uses the default FilterSpec and counts every loaded ticket,
\* whatever was selected while the panel was shown.
C10_HiddenPanelUsesDefaults ==
    /\ ~show_filters
    /\ [][IF PressHamburger THEN show_filters' = ~show_filters
                            ELSE show_filters' = show_filters]_vars
    /\ [](~show_filters => (IsDefaultFilterSpec /\ total_tickets = Len(df)))

\* The panel was shown, a widget was changed, the panel is hidden again.
C10_Witness == ~show_filters /\ touched /\ Len(df) = MaxTickets

====
